---- MODULE Spec2Model ----
\* The consensus-side proxy to mempool (consensus/src/txn_manager.rs):
\* MempoolProxy::pull_txns and MempoolProxy::commit_txns, the futures they
\* return, and the counters and security-log events they produce.
EXTENDS Integers, Sequences, FiniteSets, TLC

\* ---------------------------------------------------------------- bounds
\* Number of calls made to the proxy in one behaviour.
MaxCalls == 2
\* Longest block (txns) handed to commit_txns.
MaxTxns == 2
\* Number of ancestor payloads handed to pull_txns.
MaxPayloads == 2
\* Longest list of wire transactions in a GetBlockResponse.
MaxWire == 2

\* ------------------------------------------------------------ data model
\* SignedTransaction: only sender() and sequence_number() are read by the
\* proxy; the payload stands for the rest of the transaction.
tA7 == [sender |-> "A", sequence_number |-> 7, payload |-> "p1"]
tB1 == [sender |-> "B", sequence_number |-> 1, payload |-> "p2"]
tA8 == [sender |-> "A", sequence_number |-> 8, payload |-> "p3"]

\* the transactions a committed block is made of
SignedTransaction == {tA7, tB1}

\* TransactionStatus::Keep(_) | TransactionStatus::Discard(_); the code never
\* reads the carried VMStatus.
TransactionStatus == {"Keep", "Discard"}

\* The block timestamp consensus hands to commit_txns with its c-th call:
\* committed blocks carry increasing timestamps.
BlockTimestamp(c) == 1700 + c

\* the errors a grpc call can end with
RpcErrors == {"RpcFailure", "QueueShutdown"}

\* Wire transactions (the proto SignedTransaction, a byte string) a mempool
\* can answer with: two that decode and one that does not.
WireTransaction == {"lcs(tA7)", "lcs(tB1)", "garbage"}

\* Ancestor payloads consensus passes to pull_txns as exclude_payloads.
AncestorPayloads == { <<tA7, tB1>>, <<tA8>>, <<tA7>> }

\* max_size values handed to pull_txns
MaxSizes == {1, 10}

Calls == 1..MaxCalls

Min(a, b) == IF a <= b THEN a ELSE b

SeqsUpTo(S, n) == UNION { [1..k -> S] : k \in 0..n }

VARIABLES
    fut,          \* fut[c]: the future returned by call c
    commit_call,  \* the commit_txns call executing now: arguments, request
    pull_call,    \* the pull_txns call executing now: arguments, request
    resolved,     \* the future resolving now: what the client returned
                  \* (response), the future's output and its security events
    COMMITTED_BLOCKS_COUNT,
    NUM_TXNS_PER_BLOCK,
    COMMITTED_TXNS_COUNT

vars == << fut, commit_call, pull_call, resolved,
           COMMITTED_BLOCKS_COUNT, NUM_TXNS_PER_BLOCK, COMMITTED_TXNS_COUNT >>

\* -------------------------------------------------------------- futures
\* The future of a call that has not been made yet.
NoFuture == [op |-> "none", state |-> "Pending", attempts |-> 0, ntxns |-> 0]

NoCommitCall ==
    [id |-> 0, txns |-> << >>, compute_status |-> << >>, timestamp_usecs |-> 0,
     sent |-> << >>, panicked |-> FALSE]

NoPullCall ==
    [id |-> 0, max_size |-> 0, exclude_payloads |-> << >>, sent |-> << >>]

NoResolution ==
    [id |-> 0, result |-> <<"None">>, response |-> <<"None">>,
     security_log |-> << >>]

\* ------------------------------------------- gen_commit_transactions_request
\* `compute_result.compute_status[1..]`: slicing from 1 panics on an empty
\* vector, otherwise it is the vector without its first element.
SlicePanics(compute_status) == Len(compute_status) < 1

StatusSlice(compute_status) == Tail(compute_status)

\* Variant: the assertion is compiled out.
AssertEq_Off(a, b) == TRUE

\* assert_eq!(txns.len(), status.len())
AssertEq(a, b) == a = b

\* Variant: the iteration over txns starts at the second transaction.
Zip_SkipFirst(txns, compute_status) ==
    [i \in 1..Min(Len(txns) - 1, Len(compute_status)) |->
        [txn |-> txns[i + 1], status |-> compute_status[i]]]

\* txns.iter().zip(compute_result.compute_status.iter()): pairs up to the
\* shorter of the two, element i with element i.
Zip(txns, compute_status) ==
    [i \in 1..Min(Len(txns), Len(compute_status)) |->
        [txn |-> txns[i], status |-> compute_status[i]]]

\* Body of the loop for one (txn, status) pair: the record pushed.
CommittedTransaction(txn, status) ==
    [sender |-> txn.sender,
     sequence_number |-> txn.sequence_number,
     is_rejected |-> IF status = "Keep" THEN FALSE ELSE TRUE]

\* Variant: the Discard arm pushes the record without ticking a counter.
RECURSIVE Loop_NoFailedTick(_, _)
Loop_NoFailedTick(pairs, acc) ==
    IF pairs = << >> THEN acc
    ELSE LET p == Head(pairs)
         IN Loop_NoFailedTick(Tail(pairs),
                 [all_updates |-> Append(acc.all_updates,
                                         [sender |-> p.txn.sender,
                                          sequence_number |-> p.txn.sequence_number,
                                          is_rejected |-> p.status # "Keep"]),
                  success |-> acc.success + (IF p.status = "Keep" THEN 1 ELSE 0),
                  failed |-> acc.failed])

\* The for loop: acc carries all_updates and the ticks made so far on
\* COMMITTED_TXNS_COUNT{success} and COMMITTED_TXNS_COUNT{failed}.
RECURSIVE Loop(_, _)
Loop(pairs, acc) ==
    IF pairs = << >> THEN acc
    ELSE LET p == Head(pairs)
         IN Loop(Tail(pairs),
                 [all_updates |-> Append(acc.all_updates,
                                         CommittedTransaction(p.txn, p.status)),
                  success |-> acc.success + (IF p.status = "Keep" THEN 1 ELSE 0),
                  failed |-> acc.failed + (IF p.status = "Keep" THEN 0 ELSE 1)])

\* Variant: the alignment assertion runs after the loop instead of before it.
gen_commit_transactions_request_AssertLast(txns, compute_status, timestamp_usecs) ==
    IF SlicePanics(compute_status)
    THEN [panic |-> TRUE, success |-> 0, failed |-> 0, req |-> << >>]
    ELSE LET r == Loop(Zip(txns, compute_status),
                       [all_updates |-> << >>, success |-> 0, failed |-> 0])
         IN IF ~AssertEq(Len(txns), Len(StatusSlice(compute_status)))
            THEN [panic |-> TRUE, success |-> r.success, failed |-> r.failed,
                  req |-> << >>]
            ELSE [panic |-> FALSE, success |-> r.success, failed |-> r.failed,
                  req |-> << [transactions |-> r.all_updates,
                              block_timestamp_usecs |-> timestamp_usecs] >>]

\* The whole function: either it panics (at the slice or at the assertion,
\* both before the loop) or it returns the request; success and failed are
\* the ticks it made on COMMITTED_TXNS_COUNT before returning or panicking.
gen_commit_transactions_request(txns, compute_status, timestamp_usecs) ==
    IF SlicePanics(compute_status)
       \/ ~AssertEq(Len(txns), Len(StatusSlice(compute_status)))
    THEN [panic |-> TRUE, success |-> 0, failed |-> 0, req |-> << >>]
    ELSE LET r == Loop(Zip(txns, compute_status),
                       [all_updates |-> << >>, success |-> 0, failed |-> 0])
         IN [panic |-> FALSE, success |-> r.success, failed |-> r.failed,
             req |-> << [transactions |-> r.all_updates,
                         block_timestamp_usecs |-> timestamp_usecs] >>]

\* NUM_TXNS_PER_BLOCK.observe(v)
Observe(hist, v) == [hist EXCEPT ![v] = @ + 1]

\* ------------------------------------------------------------------ Init
Init ==
    /\ fut = [c \in Calls |-> NoFuture]
    /\ commit_call = NoCommitCall
    /\ pull_call = NoPullCall
    /\ resolved = NoResolution
    /\ COMMITTED_BLOCKS_COUNT = 0
    /\ NUM_TXNS_PER_BLOCK = [v \in 0..MaxTxns |-> 0]
    /\ COMMITTED_TXNS_COUNT = [success |-> 0, failed |-> 0]

\* No call is executing and no future is being polled: the proxy's
\* synchronous code runs to its return without interruption.
Idle == commit_call.id = 0 /\ pull_call.id = 0 /\ resolved.id = 0

\* Calls are numbered in the order they are made.
NextCall(c) ==
    /\ Idle
    /\ fut[c].state = "Pending"
    /\ \A d \in Calls : d < c => fut[d].state # "Pending"

\* ----------------------------------------------------------- commit_txns
\* commit_txns up to the point where it returns the future (or panics):
\* the two block-level counters, gen_commit_transactions_request, and
\* submit_commit_transactions_request's call of commit_transactions_async,
\* which the client accepts or refuses.
CommitTxns(c, txns, compute_status, timestamp_usecs, verdict) ==
    LET g == gen_commit_transactions_request(txns, compute_status, timestamp_usecs)
    IN /\ NextCall(c)
       /\ COMMITTED_BLOCKS_COUNT' = COMMITTED_BLOCKS_COUNT + 1
       /\ NUM_TXNS_PER_BLOCK' = Observe(NUM_TXNS_PER_BLOCK, Len(txns))
       /\ COMMITTED_TXNS_COUNT' =
              [success |-> COMMITTED_TXNS_COUNT.success + g.success,
               failed |-> COMMITTED_TXNS_COUNT.failed + g.failed]
       /\ commit_call' =
              [id |-> c, txns |-> txns, compute_status |-> compute_status,
               timestamp_usecs |-> timestamp_usecs,
               sent |-> g.req, panicked |-> g.panic]
       /\ fut' = [fut EXCEPT ![c] =
              [op |-> "commit_txns",
               state |-> IF g.panic THEN "Panicked"
                         ELSE IF verdict[1] = "Ok" THEN "Submitted"
                         ELSE "LocalFailed",
               attempts |-> Len(g.req),
               ntxns |-> Len(txns)]]
       /\ resolved' =
              IF ~g.panic /\ verdict[1] = "Err"
              THEN [id |-> c, result |-> <<"Err", verdict[2]>>,
                    response |-> verdict, security_log |-> << >>]
              ELSE resolved
       /\ UNCHANGED pull_call

\* The future built by submit_commit_transactions_request: the receiver
\* completes with a response or with an error.
CommitAwait(c, reply) ==
    /\ Idle
    /\ fut[c].op = "commit_txns"
    /\ fut[c].state = "Submitted"
    /\ fut' = [fut EXCEPT ![c].state =
                  IF reply[1] = "Ok" THEN "Resolved" ELSE "TransportFailed"]
    /\ resolved' =
           [id |-> c,
            result |-> IF reply[1] = "Ok" THEN <<"Ok", << >> >> ELSE <<"Err", reply[2]>>,
            response |-> reply, security_log |-> << >>]
    /\ UNCHANGED << commit_call, pull_call, COMMITTED_BLOCKS_COUNT,
                    NUM_TXNS_PER_BLOCK, COMMITTED_TXNS_COUNT >>

\* ------------------------------------------------------------- pull_txns
\* The body of the inner loop: the TransactionExclusion of a transaction.
TransactionExclusion(transaction) ==
    [sender |-> transaction.sender,
     sequence_number |-> transaction.sequence_number]

\* `for transaction in payload { ...; exclude_txns.push(txn_meta) }`
RECURSIVE PushPayload(_, _)
PushPayload(exclude_txns, payload) ==
    IF payload = << >> THEN exclude_txns
    ELSE PushPayload(Append(exclude_txns, TransactionExclusion(Head(payload))),
                     Tail(payload))

\* Variant: exclude_txns is declared inside the outer loop, so every payload
\* starts from an empty list.
RECURSIVE PushPayloads_Reset(_, _)
PushPayloads_Reset(exclude_txns, exclude_payloads) ==
    IF exclude_payloads = << >> THEN exclude_txns
    ELSE PushPayloads_Reset(PushPayload(<< >>, Head(exclude_payloads)),
                            Tail(exclude_payloads))

\* `for payload in exclude_payloads { ... }`
RECURSIVE PushPayloads(_, _)
PushPayloads(exclude_txns, exclude_payloads) ==
    IF exclude_payloads = << >> THEN exclude_txns
    ELSE PushPayloads(PushPayload(exclude_txns, Head(exclude_payloads)),
                      Tail(exclude_payloads))

GetBlockRequest(max_size, exclude_payloads) ==
    [max_block_size |-> max_size,
     transactions |-> PushPayloads(<< >>, exclude_payloads)]

\* SignedTransaction::try_from(proto_txn): the transaction the bytes encode,
\* or a decoding error.
SignedTransaction_try_from(proto_txn) ==
    CASE proto_txn = "lcs(tA7)" -> <<"Ok", tA7>>
      [] proto_txn = "lcs(tB1)" -> <<"Ok", tB1>>
      [] OTHER -> <<"Err", "DecodeError">>

\* response.block.unwrap_or_else(Default::default).transactions
BlockTransactions(response) ==
    IF response.block = << >> THEN << >> ELSE response.block[1].transactions

\* Variant: map_while instead of filter_map, the iteration ends at the first
\* transaction that does not decode.
RECURSIVE FilterMap_StopAtError(_, _)
FilterMap_StopAtError(transactions, acc) ==
    IF transactions = << >> THEN acc
    ELSE LET proto_txn == Head(transactions)
             t == SignedTransaction_try_from(proto_txn)
         IN IF t[1] = "Ok"
            THEN FilterMap_StopAtError(Tail(transactions),
                     [payload |-> Append(acc.payload, t[2]),
                      security_log |-> acc.security_log])
            ELSE [payload |-> acc.payload,
                  security_log |-> Append(acc.security_log,
                      [event |-> "InvalidTransactionConsensus",
                       error |-> t[2], data |-> proto_txn])]

\* .into_iter().filter_map(..).collect(): acc carries the collected payload
\* and the security events logged on the way.
RECURSIVE FilterMap(_, _)
FilterMap(transactions, acc) ==
    IF transactions = << >> THEN acc
    ELSE LET proto_txn == Head(transactions)
             t == SignedTransaction_try_from(proto_txn)
         IN FilterMap(Tail(transactions),
                IF t[1] = "Ok"
                THEN [payload |-> Append(acc.payload, t[2]),
                      security_log |-> acc.security_log]
                ELSE [payload |-> acc.payload,
                      security_log |-> Append(acc.security_log,
                          [event |-> "InvalidTransactionConsensus",
                           error |-> t[2], data |-> proto_txn])])

\* pull_txns up to the point where it returns the future.
PullTxns(c, max_size, exclude_payloads, verdict) ==
    /\ NextCall(c)
    /\ pull_call' =
           [id |-> c, max_size |-> max_size, exclude_payloads |-> exclude_payloads,
            sent |-> << GetBlockRequest(max_size, exclude_payloads) >>]
    /\ fut' = [fut EXCEPT ![c] =
           [op |-> "pull_txns",
            state |-> IF verdict[1] = "Ok" THEN "Submitted" ELSE "LocalFailed",
            attempts |-> 1,
            ntxns |-> 0]]
    /\ resolved' =
           IF verdict[1] = "Err"
           THEN [id |-> c, result |-> <<"Err", verdict[2]>>,
                 response |-> verdict, security_log |-> << >>]
           ELSE resolved
    /\ UNCHANGED << commit_call, COMMITTED_BLOCKS_COUNT, NUM_TXNS_PER_BLOCK,
                    COMMITTED_TXNS_COUNT >>

\* Variant: an error of the receiver is swallowed and an empty payload returned.
PullAwait_Swallow(c, reply) ==
    /\ Idle
    /\ fut[c].op = "pull_txns"
    /\ fut[c].state = "Submitted"
    /\ fut' = [fut EXCEPT ![c].state = "Resolved"]
    /\ resolved' =
           IF reply[1] = "Ok"
           THEN LET r == FilterMap(BlockTransactions(reply[2]),
                                   [payload |-> << >>, security_log |-> << >>])
                IN [id |-> c, result |-> <<"Ok", r.payload>>,
                    response |-> reply, security_log |-> r.security_log]
           ELSE [id |-> c, result |-> <<"Ok", << >> >>,
                 response |-> reply, security_log |-> << >>]
    /\ UNCHANGED << commit_call, pull_call, COMMITTED_BLOCKS_COUNT,
                    NUM_TXNS_PER_BLOCK, COMMITTED_TXNS_COUNT >>

\* The async block of pull_txns: the receiver completes with a response,
\* which is decoded, or with an error.
PullAwait(c, reply) ==
    /\ Idle
    /\ fut[c].op = "pull_txns"
    /\ fut[c].state = "Submitted"
    /\ fut' = [fut EXCEPT ![c].state =
                  IF reply[1] = "Ok" THEN "Resolved" ELSE "TransportFailed"]
    /\ resolved' =
           IF reply[1] = "Ok"
           THEN LET r == FilterMap(BlockTransactions(reply[2]),
                                   [payload |-> << >>, security_log |-> << >>])
                IN [id |-> c, result |-> <<"Ok", r.payload>>,
                    response |-> reply, security_log |-> r.security_log]
           ELSE [id |-> c, result |-> <<"Err", reply[2]>>,
                 response |-> reply, security_log |-> << >>]
    /\ UNCHANGED << commit_call, pull_call, COMMITTED_BLOCKS_COUNT,
                    NUM_TXNS_PER_BLOCK, COMMITTED_TXNS_COUNT >>

\* Control goes back to the caller: the call has returned its future (the
\* borrowed arguments are released) or the polled future has handed over
\* its output.
Yield ==
    /\ ~Idle
    /\ commit_call' = NoCommitCall
    /\ pull_call' = NoPullCall
    /\ resolved' = NoResolution
    /\ UNCHANGED << fut, COMMITTED_BLOCKS_COUNT, NUM_TXNS_PER_BLOCK,
                    COMMITTED_TXNS_COUNT >>

\* ------------------------------------------------------------ environment
\* Inputs of commit_txns: any block of at most MaxTxns transactions and any
\* status vector of at most MaxTxns + 1 statuses, aligned or not.
Blocks == SeqsUpTo(SignedTransaction, MaxTxns)

ComputeStatuses == SeqsUpTo(TransactionStatus, MaxTxns + 1)

\* What an *_async call of the client returns: a receiver or an error.
ClientVerdicts == {<<"Ok">>} \cup { <<"Err", e>> : e \in RpcErrors }

\* The client gives a verdict only on a call that reaches it: a call that
\* panics while generating the request never does.
ReachedClient(txns, compute_status, timestamp_usecs) ==
    IF gen_commit_transactions_request(txns, compute_status, timestamp_usecs).panic
    THEN {<<"Ok">>}
    ELSE ClientVerdicts

CommitReplies == {<<"Ok">>} \cup { <<"Err", e>> : e \in RpcErrors }

ExcludePayloads == SeqsUpTo(AncestorPayloads, MaxPayloads)

\* GetBlockResponse: block is absent or carries at most MaxWire transactions.
GetBlockResponses ==
    { [block |-> << >>] } \cup
    { [block |-> << [transactions |-> ws] >>] : ws \in SeqsUpTo(WireTransaction, MaxWire) }

PullReplies ==
    { <<"Ok", r>> : r \in GetBlockResponses } \cup { <<"Err", e>> : e \in RpcErrors }

DoCommitTxns ==
    \E c \in Calls :
        /\ NextCall(c)
        /\ \E txns \in Blocks, compute_status \in ComputeStatuses :
               \E verdict \in ReachedClient(txns, compute_status, BlockTimestamp(c)) :
                   CommitTxns(c, txns, compute_status, BlockTimestamp(c), verdict)

DoCommitAwait ==
    \E c \in Calls :
        /\ fut[c].state = "Submitted"
        /\ \E reply \in CommitReplies : CommitAwait(c, reply)

DoPullTxns ==
    \E c \in Calls :
        /\ NextCall(c)
        /\ \E max_size \in MaxSizes, exclude_payloads \in ExcludePayloads,
              verdict \in ClientVerdicts :
               PullTxns(c, max_size, exclude_payloads, verdict)

DoPullAwait ==
    \E c \in Calls :
        /\ fut[c].state = "Submitted"
        /\ \E reply \in PullReplies : PullAwait(c, reply)

\* commit_txns calls only
NextCommit == DoCommitTxns \/ DoCommitAwait \/ Yield

SpecCommit == Init /\ [][NextCommit]_vars

\* pull_txns calls only
NextPull == DoPullTxns \/ DoPullAwait \/ Yield

SpecPull == Init /\ [][NextPull]_vars

\* both operations
Next == DoCommitTxns \/ DoCommitAwait \/ DoPullTxns \/ DoPullAwait \/ Yield

Spec == Init /\ [][Next]_vars

\* ================================================================ claims
\* helpers of the properties below
Count(seq, v) == Cardinality({ i \in DOMAIN seq : seq[i] = v })

RECURSIVE SumOver(_, _)
SumOver(S, f) ==
    IF S = {} THEN 0
    ELSE LET x == CHOOSE y \in S : TRUE IN f[x] + SumOver(S \ {x}, f)

RECURSIVE Concat(_)
Concat(seqs) == IF seqs = << >> THEN << >> ELSE Head(seqs) \o Concat(Tail(seqs))

Projection(payload) ==
    [i \in 1..Len(payload) |->
        [sender |-> payload[i].sender,
         sequence_number |-> payload[i].sequence_number]]

Decodes(w) == SignedTransaction_try_from(w)[1] = "Ok"

Undecodable(w) == ~Decodes(w)

\* a commit_txns call is executing with aligned statuses
AlignedCommit ==
    /\ commit_call.id # 0
    /\ Len(commit_call.compute_status) = Len(commit_call.txns) + 1

\* a commit_txns call is executing with misaligned statuses
MisalignedCommit ==
    /\ commit_call.id # 0
    /\ Len(commit_call.compute_status) # Len(commit_call.txns) + 1

\* the step in which commit_txns is called
CommitStep == commit_call.id = 0 /\ commit_call'.id # 0

CommitCalls == { c \in Calls : fut[c].op = "commit_txns" }

Terminal == {"Resolved", "TransportFailed", "LocalFailed", "Panicked"}

\* C1: for every aligned commit_txns call, record i of the emitted request
\* has is_rejected = TRUE iff the status at index i+1 (0-based), the one
\* after the prologue, is Discard.
CommitRejectionFaithful ==
    (AlignedCommit /\ Len(commit_call.sent) = 1) =>
        \A i \in 1..Len(commit_call.txns) :
            commit_call.sent[1].transactions[i].is_rejected
                = (commit_call.compute_status[i + 1] = "Discard")

\* C2: the prologue status never reaches the request: replacing
\* statuses[0] by any other status, with the same txns, the same other
\* statuses and the same timestamp, gives the same emitted request.
PrologueDrop ==
    AlignedCommit =>
        \A s0 \in TransactionStatus :
            gen_commit_transactions_request(
                commit_call.txns,
                <<s0>> \o Tail(commit_call.compute_status),
                commit_call.timestamp_usecs).req = commit_call.sent

\* C3: an aligned commit_txns call emits one request with exactly one
\* record per transaction, record i carrying the sender and the sequence
\* number of txns[i], in the order of txns, and with the call's timestamp.
CommitRecordsFaithful ==
    AlignedCommit =>
        /\ Len(commit_call.sent) = 1
        /\ Len(commit_call.sent[1].transactions) = Len(commit_call.txns)
        /\ \A i \in 1..Len(commit_call.txns) :
              /\ commit_call.sent[1].transactions[i].sender
                    = commit_call.txns[i].sender
              /\ commit_call.sent[1].transactions[i].sequence_number
                    = commit_call.txns[i].sequence_number
        /\ commit_call.sent[1].block_timestamp_usecs = commit_call.timestamp_usecs

C3Witness ==
    /\ AlignedCommit
    /\ Len(commit_call.sent) = 1
    /\ commit_call.txns = <<tB1, tA7>>
    /\ commit_call.timestamp_usecs = 1701

\* C4: a commit_txns call whose status vector is not one longer than txns
\* (empty and too long included) panics before commit_transactions_async is
\* called: no request is handed to the client, then or later.
AlignmentFatality ==
    /\ MisalignedCommit =>
          /\ commit_call.panicked
          /\ commit_call.sent = << >>
          /\ fut[commit_call.id].state = "Panicked"
          /\ resolved.id = 0
    /\ \A c \in Calls : fut[c].state = "Panicked" => fut[c].attempts = 0

C4Witness ==
    /\ MisalignedCommit
    /\ Len(commit_call.compute_status) > Len(commit_call.txns) + 1
    /\ fut[1].state = "Panicked"
    /\ fut[1].ntxns = 1

\* C5: at any time, COMMITTED_BLOCKS_COUNT is the number of commit_txns calls
\* made, NUM_TXNS_PER_BLOCK holds one observation of |txns| per call, and the
\* ticks on COMMITTED_TXNS_COUNT{success} and {failed} add up to the number of
\* transactions of the calls with aligned statuses, whatever became of the
\* RPC of each call.
CounterParity ==
    /\ COMMITTED_BLOCKS_COUNT = Cardinality(CommitCalls)
    /\ \A v \in DOMAIN NUM_TXNS_PER_BLOCK :
          NUM_TXNS_PER_BLOCK[v]
              = Cardinality({ c \in CommitCalls : fut[c].ntxns = v })
    /\ COMMITTED_TXNS_COUNT.success + COMMITTED_TXNS_COUNT.failed
          = SumOver({ c \in CommitCalls : fut[c].state # "Panicked" },
                    [c \in Calls |-> fut[c].ntxns])

C5Witness ==
    /\ fut[1].state = "TransportFailed"
    /\ fut[1].ntxns = 2
    /\ fut[2].state = "LocalFailed"
    /\ fut[2].ntxns = 1
    /\ COMMITTED_BLOCKS_COUNT = 2
    /\ COMMITTED_TXNS_COUNT.failed >= 1

\* C6: an aligned commit_txns call adds to COMMITTED_TXNS_COUNT{success} the
\* number of Keep and to COMMITTED_TXNS_COUNT{failed} the number of Discard
\* among the statuses after the prologue; the prologue status ticks nothing.
OutcomeCountersFollowVerdicts ==
    [][ (CommitStep /\ AlignedCommit')
            => /\ COMMITTED_TXNS_COUNT'.success = COMMITTED_TXNS_COUNT.success
                     + Count(Tail(commit_call'.compute_status), "Keep")
               /\ COMMITTED_TXNS_COUNT'.failed = COMMITTED_TXNS_COUNT.failed
                     + Count(Tail(commit_call'.compute_status), "Discard") ]_vars

\* C7: the request pull_txns hands to get_block_async has max_block_size =
\* max_size and, as transactions, the (sender, sequence_number) projections
\* of the payloads of exclude_payloads, concatenated in call order.
ExclusionFaithfulness ==
    pull_call.id # 0 =>
        /\ Len(pull_call.sent) = 1
        /\ pull_call.sent[1].max_block_size = pull_call.max_size
        /\ pull_call.sent[1].transactions
              = Concat([j \in 1..Len(pull_call.exclude_payloads) |->
                           Projection(pull_call.exclude_payloads[j])])

C7Witness ==
    /\ pull_call.id # 0
    /\ pull_call.exclude_payloads = << <<tA7, tB1>>, <<tA8>> >>
    /\ pull_call.sent[1].transactions =
           << [sender |-> "A", sequence_number |-> 7],
              [sender |-> "B", sequence_number |-> 1],
              [sender |-> "A", sequence_number |-> 8] >>
    /\ pull_call.max_size = 10

\* C8: when the receiver of get_block completes with a response of n wire
\* transactions of which k do not decode, the pull_txns future resolves to
\* Ok with the n - k decoded transactions in the response's order and logs
\* exactly k InvalidTransactionConsensus events, one per undecodable
\* transaction in order; an absent block gives Ok(empty) and no event.
DecodeFailureIsolation ==
    (resolved.id # 0 /\ fut[resolved.id].op = "pull_txns"
        /\ resolved.response[1] = "Ok" /\ Len(resolved.response) = 2) =>
        LET ws == IF resolved.response[2].block = << >> THEN << >>
                  ELSE resolved.response[2].block[1].transactions
            good == SelectSeq(ws, Decodes)
            bad == SelectSeq(ws, Undecodable)
        IN /\ resolved.result[1] = "Ok"
           /\ Len(resolved.result[2]) = Len(ws) - Len(bad)
           /\ resolved.result[2]
                 = [i \in 1..Len(good) |-> SignedTransaction_try_from(good[i])[2]]
           /\ Len(resolved.security_log) = Len(bad)
           /\ \A i \in 1..Len(bad) :
                 /\ resolved.security_log[i].event = "InvalidTransactionConsensus"
                 /\ resolved.security_log[i].data = bad[i]

C8Witness ==
    /\ resolved.id # 0
    /\ fut[resolved.id].op = "pull_txns"
    /\ resolved.response = <<"Ok", [block |-> << [transactions |->
                                        <<"garbage", "lcs(tB1)">>] >>]>>
    /\ resolved.result = <<"Ok", <<tB1>> >>
    /\ Len(resolved.security_log) = 1

\* C9, state part: every call that got past alignment made exactly one
\* submission; a future resolves to Ok only in state Resolved, after the
\* receiver completed with a response; a synchronous refusal resolves the
\* future to that error in state LocalFailed, an error of the receiver
\* resolves it to that error in state TransportFailed, both without payload
\* and without security event.
ErrorSurfacingState ==
    /\ \A c \in Calls :
          (fut[c].op # "none" /\ fut[c].state # "Panicked") => fut[c].attempts = 1
    /\ resolved.id # 0 =>
          /\ fut[resolved.id].state \in {"Resolved", "TransportFailed", "LocalFailed"}
          /\ (resolved.result[1] = "Ok") <=> (fut[resolved.id].state = "Resolved")
          /\ (resolved.result[1] = "Ok") <=> (resolved.response[1] = "Ok")
          /\ resolved.response[1] = "Err" =>
                /\ resolved.result = <<"Err", resolved.response[2]>>
                /\ resolved.security_log = << >>

\* C9, step part: a future moves Pending -> Submitted, LocalFailed or
\* Panicked and Submitted -> Resolved or TransportFailed only; a terminal
\* state is never left; LocalFailed is entered from Pending only and
\* TransportFailed from Submitted only; no submission is added after the call.
ErrorSurfacingStep ==
    \A c \in Calls :
        /\ fut[c].state \in Terminal => fut'[c] = fut[c]
        /\ fut[c].state = "Submitted" =>
              /\ fut'[c].state \in {"Submitted", "Resolved", "TransportFailed"}
              /\ fut'[c].attempts = fut[c].attempts
        /\ (fut[c].state = "Pending" /\ fut'[c].state # "Pending") =>
              fut'[c].state \in {"Submitted", "LocalFailed", "Panicked"}
        /\ (fut'[c].state \in {"LocalFailed", "TransportFailed"}
                /\ fut'[c].state # fut[c].state) =>
              /\ resolved'.id = c
              /\ resolved'.result[1] = "Err"

\* C9: error surfacing without retry (state part and step part together).
ErrorSurfacing == []ErrorSurfacingState /\ [][ErrorSurfacingStep]_vars

C9Witness ==
    /\ fut[1].op = "commit_txns"
    /\ fut[1].state = "LocalFailed"
    /\ fut[2].op = "pull_txns"
    /\ fut[2].state = "TransportFailed"
    /\ resolved.id = 2
    /\ resolved.result = <<"Err", "QueueShutdown">>

\* C10: a commit_txns call with misaligned statuses has incremented
\* COMMITTED_BLOCKS_COUNT by one and observed |txns| on NUM_TXNS_PER_BLOCK
\* when it panics, and has ticked neither COMMITTED_TXNS_COUNT{success} nor
\* COMMITTED_TXNS_COUNT{failed}.
MisalignedCounterEffects ==
    [][ (CommitStep /\ MisalignedCommit')
            => /\ commit_call'.panicked
               /\ COMMITTED_BLOCKS_COUNT' = COMMITTED_BLOCKS_COUNT + 1
               /\ NUM_TXNS_PER_BLOCK' =
                     [v \in DOMAIN NUM_TXNS_PER_BLOCK |->
                         IF v = Len(commit_call'.txns)
                         THEN NUM_TXNS_PER_BLOCK[v] + 1
                         ELSE NUM_TXNS_PER_BLOCK[v]]
               /\ COMMITTED_TXNS_COUNT' = COMMITTED_TXNS_COUNT ]_vars

C10Witness ==
    /\ MisalignedCommit
    /\ commit_call.panicked
    /\ Len(commit_call.txns) = 2
    /\ commit_call.compute_status = <<"Keep", "Keep">>
    /\ COMMITTED_BLOCKS_COUNT = 1
    /\ NUM_TXNS_PER_BLOCK[2] = 1
    /\ COMMITTED_TXNS_COUNT = [success |-> 0, failed |-> 0]

====
